---- MODULE Spec2Model ----
(***************************************************************************)
(* Model of ai-models-modal/main.py: prepare_gfs_analysis (the GFS/GDAS    *)
(* subsetting driver) and its caller-side template bootstrap               *)
(* (_maybe_download_assets).                                               *)
(*                                                                         *)
(* Times are whole hours on one axis; a datetime.timedelta(hours=h) is the *)
(* integer h.  Files are sequences of bytes; a byte of a GRIB message is   *)
(* the pair <<message, position>>.                                         *)
(***************************************************************************)
EXTENDS Integers, Sequences, FiniteSets, TLC

\* ------------------------------------------------------------------ bounds
\* Number of distinct model_init values an invocation may be given.
NumInits == 2
\* Core (non-precipitation) fields per time level in the templates of the
\* concurrent specification.
SmallCore == 1
\* Core fields per time level in the largest template of the sequential
\* specification (Scenario B of the design has five).
NumCore == 5
\* Bytes moved by one step of shutil.copy's copy loop.
ChunkLen == 8

\* ------------------------------------------------------- program constants
\* datetime.datetime(2023, 7, 1, 0, 0), the default model_init, in hours.
DEFAULT_MODEL_INIT == 480
\* config.DEFAULT_GFS_TEMPLATE_MODEL_EPOCH, in hours (midnight of some day).
DEFAULT_GFS_TEMPLATE_MODEL_EPOCH == 240

SupportedModels == {"panguweather", "fourcastnetv2-small", "graphcast"}
\* model_name is an arbitrary str: one unsupported name stands for the rest.
ModelNames == SupportedModels \cup {"fourcastnet_v2"}
Inits == {DEFAULT_MODEL_INIT + 6 * k : k \in 0..(NumInits - 1)}

Inv == {"a", "b"}
Containers == {"c1", "c2"}

\* --------------------------------------------------------- pure helpers
\* int(dt.strftime("%Y%m%d")): the calendar day of an hour count.
DataDate(t) == t \div 24
\* int(dt.strftime("%H%M")): hour*100 + minute of an hour count.
DataTime(t) == (t % 24) * 100

RECURSIVE Concat(_)
Concat(ss) == IF ss = <<>> THEN <<>> ELSE Head(ss) \o Concat(Tail(ss))

RECURSIVE SumLen(_)
SumLen(ss) == IF ss = <<>> THEN 0 ELSE Len(Head(ss)) + SumLen(Tail(ss))

\* Python's zip(xs, ys): pairs up to the shorter length.
Zip(xs, ys) ==
  LET n == IF Len(xs) < Len(ys) THEN Len(xs) ELSE Len(ys)
  IN  [k \in 1..n |-> <<xs[k], ys[k]>>]

\* ------------------------------------------------------------- templates
\* One template message: its identity keys and the dataDate/dataTime it was
\* written with (template epoch + lag).
Descriptor(sn, lev, lag) ==
  [shortName |-> sn, level |-> lev,
   dataDate |-> DataDate(DEFAULT_GFS_TEMPLATE_MODEL_EPOCH + lag),
   dataTime |-> DataTime(DEFAULT_GFS_TEMPLATE_MODEL_EPOCH + lag)]

CoreName(j) == IF j % 2 = 1 THEN "t" ELSE "z"
CoreAt(n, lag) == [j \in 1..n |-> Descriptor(CoreName(j), 100 * j, lag)]
TpAt(lag) == Descriptor("tp", 0, lag)

\* Template of a single-source model: n fields at the template epoch.
SingleTemplate(n) == CoreAt(n, 0)
\* Template of the lagged model, grouped by time level: the fields at the
\* epoch, the fields six hours before, then the two precipitation messages.
LaggedTemplateBySet(n) ==
  CoreAt(n, 0) \o CoreAt(n, -6) \o <<TpAt(-6), TpAt(-18)>>
\* The same messages in field-major order (each field's two time levels next
\* to each other, precipitation first).
LaggedTemplateByField(n) ==
  <<TpAt(-18), TpAt(-6)>> \o
  Concat([j \in 1..n |-> <<CoreAt(n, -6)[j], CoreAt(n, 0)[j]>>])
\* A lagged template with one more precipitation message, at the epoch.
LaggedTemplateExtraTp(n) == LaggedTemplateBySet(n) \o <<TpAt(0)>>
\* A lagged template with no precipitation message at the 18 h lag.
LaggedTemplateMissingTp(n) == CoreAt(n, 0) \o CoreAt(n, -6) \o <<TpAt(-6)>>

\* ---------------------------------------------------------- GRIB messages
\* tostring(): the serialized bytes of one message.  A precipitation message
\* is longer than the others, so that offsets in a file are not multiples of
\* one length.
MsgLen(g) == IF g.shortName = "tp" THEN 3 ELSE 2
tostring(g) == [k \in 1..MsgLen(g) |-> <<g, k>>]

\* The ordered messages of a file: one per first byte of a message.
RECURSIVE Decode(_)
Decode(bytes) ==
  IF bytes = <<>> THEN <<>>
  ELSE IF Head(bytes)[2] = 1 THEN <<Head(bytes)[1]>> \o Decode(Tail(bytes))
       ELSE Decode(Tail(bytes))

\* A field of the GDAS analysis valid at hour t.
Analysed(sn, lev, t) ==
  [shortName |-> sn, level |-> lev,
   dataDate |-> DataDate(t), dataTime |-> DataTime(t), payload |-> t]

\* The complete analysis file of hour t: every core field, then precipitation.
FullAnalysis(t) ==
  Concat([j \in 1..(NumCore + 1) |->
            IF j <= NumCore THEN tostring(Analysed(CoreName(j), 100 * j, t))
            ELSE tostring(Analysed("tp", 0, t))])
\* An analysis file from which the precipitation field is absent.
AnalysisWithoutTp(t) ==
  Concat([j \in 1..NumCore |-> tostring(Analysed(CoreName(j), 100 * j, t))])
\* An analysis file that holds the precipitation field twice.
AnalysisDoubleTp(t) == FullAnalysis(t) \o tostring(Analysed("tp", 0, t))

\* ------------------------------------------------------------- matchers
\* An override is a tagged variant: no override, a literal, or the predicate
\* (lambda x: x != v).
NoMatcher == [kind |-> "none", v |-> 0]
Literal(v) == [kind |-> "eq", v |-> v]
NotEqual(v) == [kind |-> "ne", v |-> v]
ApplyMatcher(mt, x) ==
  CASE mt.kind = "none" -> TRUE
    [] mt.kind = "eq" -> x = mt.v
    [] mt.kind = "ne" -> x # mt.v

NoOverrides ==
  [dataDate |-> NoMatcher, dataTime |-> NoMatcher, shortName |-> NoMatcher]

\* Whether a template message is selected by a call's extra_template_matchers.
Selects(matchers, d) ==
  /\ ApplyMatcher(matchers.dataDate, d.dataDate)
  /\ ApplyMatcher(matchers.dataTime, d.dataTime)
  /\ ApplyMatcher(matchers.shortName, d.shortName)

\* The messages of a store with a template message's identity.
Matches(d, store) ==
  {k \in 1..Len(store) :
     store[k].shortName = d.shortName /\ store[k].level = d.level}

\* The Time-Offset Rewriter: only the validity date and time change.
Rewrite(g, target) ==
  [g EXCEPT !.dataDate = DataDate(target), !.dataTime = DataTime(target)]

\* gfs.process_gdas_grib(template_pth, gdas_pth, model_init, matchers): for
\* each selected template message, in template order, the one source message
\* of that identity, re-dated to the target time.
RECURSIVE SubsetFrom(_, _, _, _)
SubsetFrom(tmpl, store, target, matchers) ==
  IF tmpl = <<>> THEN [err |-> "none", msgs |-> <<>>]
  ELSE LET d == Head(tmpl)
           rest == SubsetFrom(Tail(tmpl), store, target, matchers)
       IN  IF ~Selects(matchers, d) THEN rest
           ELSE LET ms == Matches(d, store)
                IN  IF ms = {} THEN [err |-> "NoMatchError", msgs |-> <<>>]
                    ELSE IF Cardinality(ms) > 1
                         THEN [err |-> "AmbiguousMatchError", msgs |-> <<>>]
                    ELSE IF rest.err # "none" THEN rest
                    ELSE [err |-> "none",
                          msgs |-> <<Rewrite(store[CHOOSE k \in ms : TRUE],
                                             target)>> \o rest.msgs]

process_gdas_grib(tmpl, source_bytes, target, matchers) ==
  SubsetFrom(tmpl, Decode(source_bytes), target, matchers)

\* --------------------------------------------- prepare_gfs_analysis: policy
SingleSource == {"panguweather", "fourcastnetv2-small"}

\* The time lags of the source files to download (lines 74-93).
model_init_tds(model_name) ==
  CASE model_name \in SingleSource -> <<0>>
    [] model_name = "graphcast" -> <<0, -6>>
    [] OTHER -> <<>>

\* gfs.make_gfs_ics_blob_name: the path components of the blob, a directory
\* made from the analysis day and a file name made from the analysis time.  A
\* path component is a record, so that all file names compare.
make_gfs_ics_blob_name(t) ==
  <<[stem |-> "gdas", model |-> "", hour |-> DataDate(t) * 24],
    [stem |-> "gdas.f000", model |-> "", hour |-> t]>>

source_blob_names(model_name, model_init) ==
  LET tds == model_init_tds(model_name)
  IN  [k \in 1..Len(tds) |-> make_gfs_ics_blob_name(model_init + tds[k])]

\* blob_name.split("/")[-1]
source_fns(model_name, model_init) ==
  LET names == source_blob_names(model_name, model_init)
  IN  [k \in 1..Len(names) |-> names[k][Len(names[k])]]

\* Lags for Set 1 and Set 2 of the lagged model (lines 122-128).
template_tds == <<0, -6>>
\* (mutant) precipitation matched at the core lags.
tp_template_tds_AsCore == <<0, -6>>
tp_template_tds == <<-6, -18>>

extra_template_matchers(template_td, shortNameMatcher) ==
  [dataDate |-> Literal(DataDate(DEFAULT_GFS_TEMPLATE_MODEL_EPOCH + template_td)),
   dataTime |-> Literal(DataTime(DEFAULT_GFS_TEMPLATE_MODEL_EPOCH + template_td)),
   shortName |-> shortNameMatcher]

\* (mutant) Set 1 without its shortName predicate.
CoreMatcher_Missing == NoMatcher
CoreMatcher == NotEqual("tp")
PrecipMatcher == Literal("tp")

\* One call of the subsetting routine: which downloaded file, the target time
\* and the overrides.
SubsetCall(set, fn, target, matchers) ==
  [set |-> set, source_fn |-> fn, target |-> target, matchers |-> matchers]

\* (mutant) the precipitation loop runs before the core loop.
SubsetCalls_PrecipFirst(model_name, model_init) ==
  LET fns == source_fns(model_name, model_init)
  IN  CASE model_name \in SingleSource ->
             <<SubsetCall(1, fns[1], model_init, NoOverrides)>>
        [] model_name = "graphcast" ->
             LET z1 == Zip(fns, template_tds)
                 z2 == Zip(fns, tp_template_tds)
             IN  [k \in 1..Len(z2) |->
                    SubsetCall(2, z2[k][1], model_init + z2[k][2],
                               extra_template_matchers(z2[k][2], PrecipMatcher))]
                 \o
                 [k \in 1..Len(z1) |->
                    SubsetCall(1, z1[k][1], model_init + z1[k][2],
                               extra_template_matchers(z1[k][2], CoreMatcher))]
        [] OTHER -> <<>>

\* (mutant) every call is given model_init itself as its target time.
SubsetCalls_TargetWithoutLag(model_name, model_init) ==
  LET fns == source_fns(model_name, model_init)
  IN  CASE model_name \in SingleSource ->
             <<SubsetCall(1, fns[1], model_init, NoOverrides)>>
        [] model_name = "graphcast" ->
             LET z1 == Zip(fns, template_tds)
                 z2 == Zip(fns, tp_template_tds)
             IN  [k \in 1..Len(z1) |->
                    SubsetCall(1, z1[k][1], model_init,
                               extra_template_matchers(z1[k][2], CoreMatcher))]
                 \o
                 [k \in 1..Len(z2) |->
                    SubsetCall(2, z2[k][1], model_init,
                               extra_template_matchers(z2[k][2], PrecipMatcher))]
        [] OTHER -> <<>>

\* The calls of the subsetting routine, in program order (lines 108-166).
SubsetCalls(model_name, model_init) ==
  LET fns == source_fns(model_name, model_init)
  IN  CASE model_name \in SingleSource ->
             <<SubsetCall(1, fns[1], model_init, NoOverrides)>>
        [] model_name = "graphcast" ->
             LET z1 == Zip(fns, template_tds)
                 z2 == Zip(fns, tp_template_tds)
             IN  [k \in 1..Len(z1) |->
                    SubsetCall(1, z1[k][1], model_init + z1[k][2],
                               extra_template_matchers(z1[k][2], CoreMatcher))]
                 \o
                 [k \in 1..Len(z2) |->
                    SubsetCall(2, z2[k][1], model_init + z2[k][2],
                               extra_template_matchers(z2[k][2], PrecipMatcher))]
        [] OTHER -> <<>>

\* File names (lines 54-58).
proc_gdas_fn(model_name) ==
  [stem |-> "gdas.proc", model |-> model_name, hour |-> 0]
\* gfs.make_gfs_base_pth: the cache directory of one initialization time.
make_gfs_base_pth(model_init) == [root |-> "CACHE_DIR", hour |-> model_init]
\* pathlib's dir / name.
Path(dir, fn) == [dir |-> dir, fn |-> fn]
final_proc_gdas_pth(model_name, model_init) ==
  Path(make_gfs_base_pth(model_init), proc_gdas_fn(model_name))
\* The working directory of a container: relative names resolve in it.
Cwd(c) == [root |-> c, hour |-> 0]

\* ------------------------------------------------------------------ state
VARIABLES
  template,     \* model name -> messages of its template file, where one exists
  tmplBucket,   \* model name -> messages of its template blob in the bucket
  force_override, \* config.FORCE_OVERRIDE, the default of force
  gfsKind,      \* what the analysis files in the GFS bucket hold
  dirs,         \* directories that exist on the cache volume
  files,        \* path -> bytes, for every file that exists (cache and local)
  pool,         \* containers the dispatcher may place an invocation in
  quota,        \* invocations the callers still make
  pc,           \* per invocation: the line it is about to execute
  model_name, model_init, force,   \* per invocation: its arguments
  cont,         \* per invocation: the container it runs in
  k,            \* per invocation: loop index / copy offset
  subset_grbs,  \* per invocation: the assembled messages
  raised,       \* per invocation: the exception that ended it, or "none"
  shortcut,     \* per invocation: whether it returned at line 66
  downloaded,   \* per invocation: the blobs it asked download_blob for
  subsetted,    \* per invocation: the process_gdas_grib calls it made, with
                \* what each returned
  reads, writes, \* per invocation: the paths it read / wrote or created
  opts,         \* per invocation: the function its caller invoked and the
                \* options passed to it
  called,       \* per invocation: the calls made on its behalf, in order
  uploaded      \* names of the forecast blobs in the bucket

argvars == <<model_name, model_init, force, cont>>
logvars == <<downloaded, subsetted, reads, writes>>
envvars == <<template, tmplBucket, force_override, gfsKind, pool>>
flowvars == <<opts, called, uploaded>>
vars == <<template, tmplBucket, force_override, gfsKind, dirs, files, pool, quota, pc, model_name,
          model_init, force, cont, k, subset_grbs, raised, shortcut,
          downloaded, subsetted, reads, writes, opts, called, uploaded>>

Exists(p) == p \in DOMAIN files
WriteFile(fs, p, bytes) == [q \in DOMAIN fs \cup {p} |-> IF q = p THEN bytes ELSE fs[q]]
RemoveFile(fs, p) == [q \in DOMAIN fs \ {p} |-> fs[q]]

\* The bytes of the analysis blob of hour t in the GFS bucket.
BlobBytes(kind, t) ==
  CASE kind = "full" -> FullAnalysis(t)
    [] kind = "no-tp" -> AnalysisWithoutTp(t)
    [] kind = "double-tp" -> AnalysisDoubleTp(t)

\* A byte of a hole left by writing past the end of a file.
ZeroByte == <<Analysed("", 0, 0), 0>>
\* (mutant) the destination is written in append mode.
WriteAt_Appending(content, off, chunk) == content \o chunk
\* write(chunk) at byte offset off of a file holding content.
WriteAt(content, off, chunk) ==
  LET n == Len(content)
      pre == IF n >= off THEN SubSeq(content, 1, off)
             ELSE content \o [j \in 1..(off - n) |-> ZeroByte]
      post == IF n > off + Len(chunk)
              THEN SubSeq(content, off + Len(chunk) + 1, n) ELSE <<>>
  IN  pre \o chunk \o post

Running(i) == pc[i] \notin {"idle", "returned", "raised", "done"}
\* The options of a call: the function invoked and its keyword arguments.
Options(entry, use_gfs, upload_to_gcs) ==
  [entry |-> entry, use_gfs |-> use_gfs, upload_to_gcs |-> upload_to_gcs,
   make_template |-> FALSE, run_checks |-> FALSE, run_forecast |-> FALSE]
Log(i, what) == called' = [called EXCEPT ![i] = Append(@, what)]
local(i, fn) == Path(Cwd(cont[i]), fn)
final_pth(i) == final_proc_gdas_pth(model_name[i], model_init[i])
local_proc_pth(i) == local(i, proc_gdas_fn(model_name[i]))

Raise(i, e) ==
  /\ pc' = [pc EXCEPT ![i] = "raised"]
  /\ raised' = [raised EXCEPT ![i] = e]
Goto(i, l) ==
  /\ pc' = [pc EXCEPT ![i] = l]
  /\ UNCHANGED raised

\* ---------------------------------------------------------------- actions
\* A caller invokes prepare_gfs_analysis(model_name, model_init, force); the
\* dispatcher runs it in a container that is running nothing else.
Invoke(i) ==
  /\ pc[i] = "idle" /\ quota > 0
  /\ \E m \in ModelNames, t \in Inits, f \in BOOLEAN, c \in pool :
       /\ \A j \in Inv : Running(j) => cont[j] # c
       /\ model_name' = [model_name EXCEPT ![i] = m]
       /\ model_init' = [model_init EXCEPT ![i] = t]
       /\ force' = [force EXCEPT ![i] = f]
       /\ cont' = [cont EXCEPT ![i] = c]
  /\ opts' = [opts EXCEPT ![i] = Options("prepare_gfs_analysis", TRUE, FALSE)]
  /\ Log(i, "prepare_gfs_analysis")
  /\ quota' = quota - 1
  /\ Goto(i, "L48")
  /\ UNCHANGED <<envvars, dirs, files, k, subset_grbs, shortcut, logvars,
                 uploaded>>

\* (mutant) the template is not checked.
CheckTemplate_Skipped(i) ==
  /\ pc[i] = "L48"
  /\ Goto(i, "L54")
  /\ UNCHANGED <<envvars, dirs, files, quota, argvars, flowvars, k, subset_grbs,
                 shortcut, logvars>>

\* Lines 48-52: the template must exist.
CheckTemplate(i) ==
  /\ pc[i] = "L48"
  /\ IF model_name[i] \in DOMAIN template
     THEN Goto(i, "L54") ELSE Raise(i, "ValueError")
  /\ UNCHANGED <<envvars, dirs, files, quota, argvars, flowvars, k, subset_grbs,
                 shortcut, logvars>>

\* Lines 54-55: gdas_base_pth.mkdir(parents=True, exist_ok=True).
MakeBaseDir(i) ==
  /\ pc[i] = "L54"
  /\ dirs' = dirs \cup {make_gfs_base_pth(model_init[i])}
  /\ Goto(i, "L60")
  /\ UNCHANGED <<envvars, files, quota, argvars, flowvars, k, subset_grbs, shortcut,
                 logvars>>

\* (mutant) an unforced invocation returns without looking for the product.
CheckExisting_ReturnsUnforced(i) ==
  /\ pc[i] = "L60"
  /\ IF ~force[i]
     THEN /\ Goto(i, "returned")
          /\ shortcut' = [shortcut EXCEPT ![i] = TRUE]
     ELSE /\ Goto(i, "L74")
          /\ UNCHANGED shortcut
  /\ UNCHANGED <<envvars, dirs, files, quota, argvars, flowvars, k, subset_grbs, logvars>>

\* (mutant) the check ignores force.
CheckExisting_IgnoresForce(i) ==
  /\ pc[i] = "L60"
  /\ IF Exists(final_pth(i))
     THEN /\ Goto(i, "returned")
          /\ shortcut' = [shortcut EXCEPT ![i] = TRUE]
     ELSE /\ Goto(i, "L74")
          /\ UNCHANGED shortcut
  /\ UNCHANGED <<envvars, dirs, files, quota, argvars, flowvars, k, subset_grbs, logvars>>

\* Lines 57-66: return at once when the product exists and force is off.
CheckExisting(i) ==
  /\ pc[i] = "L60"
  /\ IF Exists(final_pth(i)) /\ ~force[i]
     THEN /\ Goto(i, "returned")
          /\ shortcut' = [shortcut EXCEPT ![i] = TRUE]
     ELSE /\ Goto(i, "L74")
          /\ UNCHANGED shortcut
  /\ UNCHANGED <<envvars, dirs, files, quota, argvars, flowvars, k, subset_grbs, logvars>>

\* Lines 74-95: choose the source blobs; an unknown model is a ValueError.
SelectSources(i) ==
  /\ pc[i] = "L74"
  /\ IF model_init_tds(model_name[i]) = <<>>
     THEN Raise(i, "ValueError") /\ UNCHANGED k
     ELSE Goto(i, "L96") /\ k' = [k EXCEPT ![i] = 1]
  /\ UNCHANGED <<envvars, dirs, files, quota, argvars, flowvars, subset_grbs, shortcut,
                 logvars>>

\* Lines 96-104: one iteration of the download loop.  download_blob either
\* writes the blob's bytes to source_fn or leaves no file of that name; the
\* latter is the RuntimeError of line 104.
Download(i) ==
  /\ pc[i] = "L96"
  /\ LET names == source_blob_names(model_name[i], model_init[i])
         fns == source_fns(model_name[i], model_init[i])
         blob == names[k[i]]
         dst == local(i, fns[k[i]])
     IN  /\ downloaded' = [downloaded EXCEPT ![i] = Append(@, blob)]
         /\ writes' = [writes EXCEPT ![i] = @ \cup {dst}]
         /\ \E ok \in BOOLEAN :
              IF ok
              THEN /\ files' = WriteFile(files, dst,
                                         BlobBytes(gfsKind, blob[2].hour))
                   /\ IF k[i] < Len(names)
                      THEN Goto(i, "L96") /\ k' = [k EXCEPT ![i] = @ + 1]
                      ELSE Goto(i, "L108") /\ k' = [k EXCEPT ![i] = 1]
              ELSE /\ files' = RemoveFile(files, dst)
                   /\ Raise(i, "RuntimeError")
                   /\ UNCHANGED k
  /\ UNCHANGED <<envvars, dirs, quota, argvars, flowvars, subset_grbs, shortcut,
                 subsetted, reads>>

\* (mutant) a failing call is logged and skipped.
Subset_ContinuesOnError(i) ==
  /\ pc[i] = "L108"
  /\ LET calls == SubsetCalls(model_name[i], model_init[i])
         call == calls[k[i]]
         src == local(i, call.source_fn)
         res == process_gdas_grib(template[model_name[i]], files[src],
                                  call.target, call.matchers)
     IN  /\ subsetted' = [subsetted EXCEPT ![i] =
                           Append(@, [call |-> call, err |-> res.err,
                                      msgs |-> res.msgs])]
         /\ reads' = [reads EXCEPT ![i] = @ \cup {src}]
         /\ subset_grbs' = [subset_grbs EXCEPT ![i] = @ \o res.msgs]
         /\ IF k[i] < Len(calls)
            THEN Goto(i, "L108") /\ k' = [k EXCEPT ![i] = @ + 1]
            ELSE Goto(i, "L168") /\ UNCHANGED k
  /\ UNCHANGED <<envvars, dirs, files, quota, argvars, flowvars, shortcut, downloaded,
                 writes>>

\* Lines 108-166: one call of gfs.process_gdas_grib; its messages are appended
\* to subset_grbs, its exception ends the invocation.
Subset(i) ==
  /\ pc[i] = "L108"
  /\ LET calls == SubsetCalls(model_name[i], model_init[i])
         call == calls[k[i]]
         src == local(i, call.source_fn)
         res == process_gdas_grib(template[model_name[i]], files[src],
                                  call.target, call.matchers)
     IN  /\ subsetted' = [subsetted EXCEPT ![i] =
                           Append(@, [call |-> call, err |-> res.err,
                                      msgs |-> res.msgs])]
         /\ reads' = [reads EXCEPT ![i] = @ \cup {src}]
         /\ IF res.err # "none"
            THEN Raise(i, res.err) /\ UNCHANGED <<k, subset_grbs>>
            ELSE /\ subset_grbs' = [subset_grbs EXCEPT ![i] = @ \o res.msgs]
                 /\ IF k[i] < Len(calls)
                    THEN Goto(i, "L108") /\ k' = [k EXCEPT ![i] = @ + 1]
                    ELSE Goto(i, "L168") /\ UNCHANGED k
  /\ UNCHANGED <<envvars, dirs, files, quota, argvars, flowvars, shortcut, downloaded,
                 writes>>

\* Line 169: open(proc_gdas_fn, "wb") creates or truncates the local file.
OpenLocal(i) ==
  /\ pc[i] = "L168"
  /\ files' = WriteFile(files, local_proc_pth(i), <<>>)
  /\ writes' = [writes EXCEPT ![i] = @ \cup {local_proc_pth(i)}]
  /\ k' = [k EXCEPT ![i] = 1]
  /\ Goto(i, "L176")
  /\ UNCHANGED <<envvars, dirs, quota, argvars, flowvars, subset_grbs, shortcut,
                 downloaded, subsetted, reads>>

\* (mutant) a separator byte follows each message.
WriteMsg_WithSeparator(i) ==
  /\ pc[i] = "L176" /\ k[i] <= Len(subset_grbs[i])
  /\ files' = WriteFile(files, local_proc_pth(i),
                        files[local_proc_pth(i)] \o tostring(subset_grbs[i][k[i]])
                        \o <<ZeroByte>>)
  /\ k' = [k EXCEPT ![i] = @ + 1]
  /\ Goto(i, "L176")
  /\ UNCHANGED <<envvars, dirs, quota, argvars, flowvars, subset_grbs, shortcut, logvars>>

\* Lines 176-183: f.write(grb.tostring()) for the next message.
WriteMsg(i) ==
  /\ pc[i] = "L176" /\ k[i] <= Len(subset_grbs[i])
  /\ files' = WriteFile(files, local_proc_pth(i),
                        files[local_proc_pth(i)] \o tostring(subset_grbs[i][k[i]]))
  /\ k' = [k EXCEPT ![i] = @ + 1]
  /\ Goto(i, "L176")
  /\ UNCHANGED <<envvars, dirs, quota, argvars, flowvars, subset_grbs, shortcut, logvars>>

\* End of the with block: the local file is closed.
CloseLocal(i) ==
  /\ pc[i] = "L176" /\ k[i] > Len(subset_grbs[i])
  /\ Goto(i, "L188")
  /\ UNCHANGED <<envvars, dirs, files, quota, argvars, flowvars, k, subset_grbs,
                 shortcut, logvars>>

\* Line 188, shutil.copy: open the source, create or truncate the destination.
CopyOpen(i) ==
  /\ pc[i] = "L188"
  /\ files' = WriteFile(files, final_pth(i), <<>>)
  /\ reads' = [reads EXCEPT ![i] = @ \cup {local_proc_pth(i)}]
  /\ writes' = [writes EXCEPT ![i] = @ \cup {final_pth(i)}]
  /\ k' = [k EXCEPT ![i] = 0]
  /\ Goto(i, "L188-copy")
  /\ UNCHANGED <<envvars, dirs, quota, argvars, flowvars, subset_grbs, shortcut,
                 downloaded, subsetted>>

\* shutil.copy's loop: the next chunk of the source goes to the same offset of
\* the destination.
CopyChunk(i) ==
  /\ pc[i] = "L188-copy"
  /\ LET src == files[local_proc_pth(i)]
         hi == IF k[i] + ChunkLen < Len(src) THEN k[i] + ChunkLen ELSE Len(src)
     IN  /\ k[i] < Len(src)
         /\ files' = WriteFile(files, final_pth(i),
                               WriteAt(files[final_pth(i)], k[i],
                                       SubSeq(src, k[i] + 1, hi)))
         /\ k' = [k EXCEPT ![i] = hi]
  /\ Goto(i, "L188-copy")
  /\ UNCHANGED <<envvars, dirs, quota, argvars, flowvars, subset_grbs, shortcut, logvars>>

\* shutil.copy returns once the source is exhausted.
CopyClose(i) ==
  /\ pc[i] = "L188-copy" /\ k[i] >= Len(files[local_proc_pth(i)])
  /\ Goto(i, "L192")
  /\ UNCHANGED <<envvars, dirs, files, quota, argvars, flowvars, k, subset_grbs,
                 shortcut, logvars>>

\* Lines 191-193: the product must now exist in the cache.
FinalCheck(i) ==
  /\ pc[i] = "L192"
  /\ IF Exists(Path(make_gfs_base_pth(model_init[i]),
                    proc_gdas_fn(model_name[i])))
     THEN Goto(i, "returned") ELSE Raise(i, "RuntimeError")
  /\ UNCHANGED <<envvars, dirs, files, quota, argvars, flowvars, k, subset_grbs,
                 shortcut, logvars>>

prepare_gfs_analysis(i) ==
  \/ CheckTemplate(i) \/ MakeBaseDir(i) \/ CheckExisting(i)
  \/ SelectSources(i) \/ Download(i) \/ Subset(i)
  \/ OpenLocal(i) \/ WriteMsg(i) \/ CloseLocal(i)
  \/ CopyOpen(i) \/ CopyChunk(i) \/ CopyClose(i) \/ FinalCheck(i)

Idle ==
  /\ pc = [i \in Inv |-> "idle"]
  /\ model_name = [i \in Inv |-> "panguweather"]
  /\ model_init = [i \in Inv |-> DEFAULT_MODEL_INIT]
  /\ force = [i \in Inv |-> FALSE]
  /\ cont = [i \in Inv |-> "c1"]
  /\ k = [i \in Inv |-> 0]
  /\ subset_grbs = [i \in Inv |-> <<>>]
  /\ raised = [i \in Inv |-> "none"]
  /\ shortcut = [i \in Inv |-> FALSE]
  /\ downloaded = [i \in Inv |-> <<>>]
  /\ subsetted = [i \in Inv |-> <<>>]
  /\ reads = [i \in Inv |-> {}]
  /\ writes = [i \in Inv |-> {}]
  /\ opts = [i \in Inv |-> Options("none", FALSE, FALSE)]
  /\ called = [i \in Inv |-> <<>>]
  /\ uploaded = {}

\* Two invocations, possibly concurrent (in different containers) or one after
\* the other (possibly in the same container); every supported model has its
\* template and the bucket holds complete analyses.
Init ==
  /\ Idle
  /\ template = [m \in SupportedModels |->
                   IF m = "graphcast" THEN LaggedTemplateByField(SmallCore)
                   ELSE SingleTemplate(SmallCore)]
  /\ tmplBucket = <<>>
  /\ force_override = FALSE
  /\ gfsKind = "full"
  /\ dirs = {}
  /\ files = <<>>
  /\ pool = Containers
  /\ quota = Cardinality(Inv)

Next == \E i \in Inv : Invoke(i) \/ prepare_gfs_analysis(i)

Spec == Init /\ [][Next]_vars

\* ------------------------------------------------- _maybe_download_assets
\* What make_model_era5_template writes for a model: one message per input
\* field of the model, in the order the model lists its fields.
GeneratedTemplates(m) ==
  IF m = "graphcast"
  THEN {LaggedTemplateBySet(NumCore), LaggedTemplateByField(NumCore)}
  ELSE {SingleTemplate(NumCore)}

\* generate_forecast(model_name, model_init, lead_time, use_gfs,
\* skip_validate_env, upload_to_gcs) for a model the shim knows:
\* _maybe_download_assets runs first; prepare_gfs_analysis, when invoked, gets
\* the default force.
Forecast(i) ==
  /\ pc[i] = "idle" /\ quota > 0
  /\ \E m \in SupportedModels, t \in Inits, c \in pool :
       /\ \A j \in Inv : Running(j) => cont[j] # c
       /\ model_name' = [model_name EXCEPT ![i] = m]
       /\ model_init' = [model_init EXCEPT ![i] = t]
       /\ cont' = [cont EXCEPT ![i] = c]
  /\ \E g, u \in BOOLEAN :
       opts' = [opts EXCEPT ![i] = Options("generate_forecast", g, u)]
  /\ Log(i, "generate_forecast")
  /\ force' = [force EXCEPT ![i] = force_override]
  /\ quota' = quota - 1
  /\ Goto(i, "L429")
  /\ UNCHANGED <<envvars, dirs, files, k, subset_grbs, shortcut, logvars,
                 uploaded>>

\* Lines 429-431: nothing to do when the template file exists.
AssetsCheckTemplate(i) ==
  /\ pc[i] = "L429"
  /\ IF model_name[i] \in DOMAIN template
     THEN Goto(i, "L487") /\ Log(i, "_maybe_download_assets returned")
     ELSE Goto(i, "L449") /\ UNCHANGED called
  /\ UNCHANGED <<envvars, dirs, files, quota, argvars, opts, uploaded, k,
                 subset_grbs, shortcut, logvars>>

\* Line 449: is the template blob in the bucket?
AssetsCheckBlob(i) ==
  /\ pc[i] = "L449"
  /\ IF model_name[i] \in DOMAIN tmplBucket
     THEN Goto(i, "L458") ELSE Goto(i, "L451")
  /\ UNCHANGED <<envvars, dirs, files, quota, argvars, flowvars, k, subset_grbs,
                 shortcut, logvars>>

\* Line 451 (make_model_era5_template, lines 542-594): generate the template
\* and upload it to the bucket.
MakeTemplate(i) ==
  /\ pc[i] = "L451"
  /\ \E tm \in GeneratedTemplates(model_name[i]) :
       tmplBucket' = [m \in DOMAIN tmplBucket \cup {model_name[i]} |->
                        IF m = model_name[i] THEN tm ELSE tmplBucket[m]]
  /\ Goto(i, "L458")
  /\ UNCHANGED <<template, force_override, gfsKind, pool, dirs, files, quota,
                 argvars, flowvars, k, subset_grbs, shortcut, logvars>>

\* Line 458: download the template blob to the template path; the download
\* may leave no file.
AssetsDownload(i) ==
  /\ pc[i] = "L458"
  /\ \E ok \in BOOLEAN :
       IF ok /\ model_name[i] \in DOMAIN tmplBucket
       THEN template' = [m \in DOMAIN template \cup {model_name[i]} |->
                           IF m = model_name[i] THEN tmplBucket[m]
                           ELSE template[m]]
       ELSE template' = [m \in DOMAIN template \ {model_name[i]} |-> template[m]]
  /\ Goto(i, "L487")
  /\ Log(i, "_maybe_download_assets returned")
  /\ UNCHANGED <<tmplBucket, force_override, gfsKind, pool, dirs, files, quota,
                 argvars, opts, uploaded, k, subset_grbs, shortcut, logvars>>

maybe_download_assets(i) ==
  \/ AssetsCheckTemplate(i) \/ AssetsCheckBlob(i)
  \/ MakeTemplate(i) \/ AssetsDownload(i)

\* ------------------------------------------------------ generate_forecast
\* The container of the AIModel class.
ModelContainer == "gpu"
\* config.make_output_path(model_name, model_init, use_gfs).
make_output_path(m, t, use_gfs) ==
  Path([root |-> "OUTPUT_ROOT_DIR", hour |-> t],
       [stem |-> IF use_gfs THEN "gfs" ELSE "era5", model |-> m, hour |-> t])
out_pth(i) == make_output_path(model_name[i], model_init[i], opts[i].use_gfs)
\* The initial conditions file of the model run, in the model's container.
gdas_proc_fn(i) == Path(Cwd(ModelContainer), proc_gdas_fn(model_name[i]))
InForecast(i) == opts[i].entry \in {"generate_forecast", "main"}

\* (mutant) the initial conditions are not prepared.
ForecastPrepare_Skipped(i) ==
  /\ pc[i] = "L487"
  /\ Goto(i, "L489")
  /\ UNCHANGED <<envvars, dirs, files, quota, argvars, flowvars, k,
                 subset_grbs, shortcut, logvars>>

\* Lines 487-488: prepare_gfs_analysis.remote(model_name, model_init) when
\* use_gfs is set.
ForecastPrepare(i) ==
  /\ pc[i] = "L487"
  /\ IF opts[i].use_gfs
     THEN Goto(i, "L48") /\ Log(i, "prepare_gfs_analysis")
     ELSE Goto(i, "L489") /\ UNCHANGED called
  /\ UNCHANGED <<envvars, dirs, files, quota, argvars, opts, uploaded, k,
                 subset_grbs, shortcut, logvars>>

\* prepare_gfs_analysis.remote returned to generate_forecast; its exception
\* would have ended generate_forecast.
ForecastResume(i) ==
  /\ pc[i] = "returned" /\ InForecast(i)
  /\ Goto(i, "L489") /\ Log(i, "prepare_gfs_analysis returned")
  /\ UNCHANGED <<envvars, dirs, files, quota, argvars, opts, uploaded, k,
                 subset_grbs, shortcut, logvars>>

\* Line 489, AIModel.__init__ (lines 268-295): the output path and its
\* directory.
Construct(i) ==
  /\ pc[i] = "L489"
  /\ dirs' = dirs \cup {out_pth(i).dir}
  /\ Goto(i, "L298") /\ Log(i, "AIModel")
  /\ UNCHANGED <<envvars, files, quota, argvars, opts, uploaded, k,
                 subset_grbs, shortcut, logvars>>

\* Lines 297-311, run on entering the container that serves run_model:
\* _init_model_for_gfs (lines 344-385) needs the processed file in the cache
\* and copies it to the working directory; _init_model_for_era5 needs nothing.
InitModel(i) ==
  /\ pc[i] = "L298"
  /\ IF opts[i].use_gfs
     THEN /\ Log(i, "_init_model_for_gfs")
          /\ IF ~Exists(final_pth(i))
             THEN Raise(i, "RuntimeError") /\ UNCHANGED files
             ELSE /\ files' = WriteFile(files, gdas_proc_fn(i), files[final_pth(i)])
                  /\ Goto(i, "L388")
     ELSE /\ Log(i, "_init_model_for_era5")
          /\ Goto(i, "L388") /\ UNCHANGED files
  /\ UNCHANGED <<envvars, dirs, quota, argvars, opts, uploaded, k,
                 subset_grbs, shortcut, logvars>>

\* Lines 387-390: run_model starts the run of the initialised model.
StartRun(i) ==
  /\ pc[i] = "L388"
  /\ Goto(i, "L390") /\ Log(i, "run_model")
  /\ UNCHANGED <<envvars, dirs, files, quota, argvars, opts, uploaded, k,
                 subset_grbs, shortcut, logvars>>

\* Line 390, self.init_model.run(): the run ends with the forecast written to
\* the output path, with nothing written, or with an exception.
FinishRun(i) ==
  /\ pc[i] = "L390"
  /\ \E outcome \in {"written", "nothing", "error"} :
       /\ files' = IF outcome = "written" THEN WriteFile(files, out_pth(i), <<>>)
                   ELSE files
       /\ IF outcome = "error" THEN Raise(i, "RuntimeError")
          ELSE Goto(i, IF InForecast(i) THEN "L497" ELSE "done")
  /\ Log(i, "run_model returned")
  /\ UNCHANGED <<envvars, dirs, quota, argvars, opts, uploaded, k,
                 subset_grbs, shortcut, logvars>>

\* Lines 495-500: the output file is looked for; the result is only logged.
CheckOutput(i) ==
  /\ pc[i] = "L497"
  /\ Goto(i, "L502") /\ Log(i, "out_pth.exists")
  /\ UNCHANGED <<envvars, dirs, files, quota, argvars, opts, uploaded, k,
                 subset_grbs, shortcut, logvars>>

\* Lines 502-532: with upload_to_gcs, and credentials at hand, the output is
\* uploaded; upload_blob stores the file as a blob or fails.
UploadOutput(i) ==
  /\ pc[i] = "L502"
  /\ IF opts[i].upload_to_gcs
     THEN \E credentials \in BOOLEAN :
            IF ~credentials
            THEN Goto(i, "done") /\ UNCHANGED <<called, uploaded>>
            ELSE /\ Log(i, "upload_blob")
                 /\ \E stored \in {b \in BOOLEAN : b => Exists(out_pth(i))} :
                      IF stored
                      THEN /\ uploaded' = uploaded \cup {out_pth(i).fn}
                           /\ Goto(i, "done")
                      ELSE /\ Raise(i, "FileNotFoundError")
                           /\ UNCHANGED uploaded
     ELSE Goto(i, "done") /\ UNCHANGED <<called, uploaded>>
  /\ UNCHANGED <<envvars, dirs, files, quota, argvars, opts, k,
                 subset_grbs, shortcut, logvars>>

\* A caller uses the class directly: AIModel(model_name, model_init,
\* lead_time, use_gfs).run_model.remote().
UseModel(i) ==
  /\ pc[i] = "idle" /\ quota > 0
  /\ \E m \in SupportedModels, t \in Inits, c \in pool :
       /\ \A j \in Inv : Running(j) => cont[j] # c
       /\ model_name' = [model_name EXCEPT ![i] = m]
       /\ model_init' = [model_init EXCEPT ![i] = t]
       /\ cont' = [cont EXCEPT ![i] = c]
  /\ \E g \in BOOLEAN : opts' = [opts EXCEPT ![i] = Options("AIModel", g, FALSE)]
  /\ quota' = quota - 1
  /\ Goto(i, "L489")
  /\ UNCHANGED <<envvars, dirs, files, force, k, subset_grbs, shortcut,
                 logvars, called, uploaded>>

generate_forecast(i) ==
  \/ maybe_download_assets(i) \/ ForecastPrepare(i) \/ ForecastResume(i)
  \/ Construct(i) \/ InitModel(i) \/ StartRun(i) \/ FinishRun(i)
  \/ CheckOutput(i) \/ UploadOutput(i)

\* ------------------------------------------------ sequential specification
\* The template files a run may find: none, a generated one, or (for the
\* lagged model) one whose precipitation messages do not fit the two lags.
LaggedTemplates ==
  {LaggedTemplateBySet(NumCore), LaggedTemplateByField(NumCore),
   LaggedTemplateExtraTp(NumCore), LaggedTemplateMissingTp(NumCore)}
TemplateStates ==
  {<<>>}
  \cup {[m \in SingleSource |-> SingleTemplate(NumCore)]}
  \cup {[m \in {"graphcast"} |-> tm] : tm \in LaggedTemplates}
  \cup {[m \in SupportedModels |->
           IF m = "graphcast" THEN tm ELSE SingleTemplate(NumCore)] :
        tm \in LaggedTemplates}
  \cup {[m \in ModelNames |->
           IF m = "graphcast" THEN LaggedTemplateBySet(NumCore)
           ELSE SingleTemplate(NumCore)]}

\* A product left in the cache by an earlier run.
EarlierProduct(m, t) ==
  tostring(Rewrite(Analysed(CoreName(1), 100, t), t))
FinalPaths ==
  {final_proc_gdas_pth(m, t) : m \in SupportedModels, t \in Inits}

\* One request at a time, in one container: a direct invocation of
\* prepare_gfs_analysis or a forecast request; the templates, the bucket and
\* the cache are as earlier runs may have left them.
InitSolo ==
  /\ Idle
  /\ template \in TemplateStates
  /\ tmplBucket \in {<<>>, [m \in SupportedModels |->
                             IF m = "graphcast" THEN LaggedTemplateBySet(NumCore)
                             ELSE SingleTemplate(NumCore)]}
  /\ force_override \in BOOLEAN
  /\ gfsKind \in {"full", "no-tp", "double-tp"}
  /\ \E pre \in BOOLEAN :
       IF pre
       THEN /\ dirs = {make_gfs_base_pth(t) : t \in Inits}
            /\ files = [p \in FinalPaths |->
                          EarlierProduct(p.fn.model, p.dir.hour)]
       ELSE dirs = {} /\ files = <<>>
  /\ pool = {"c1"}
  /\ quota = 1

NextSolo ==
  \E i \in Inv : Invoke(i) \/ Forecast(i) \/ UseModel(i)
                 \/ generate_forecast(i) \/ prepare_gfs_analysis(i)

SpecSolo == InitSolo /\ [][NextSolo]_vars

\* ------------------------------------------------------------------- main
\* ai_models_shim.SUPPORTED_AI_MODELS, as main's docstring lists it.
SUPPORTED_AI_MODELS == {"panguweather", "fourcastnetv2-small", "graphcast"}

\* The local entry point is run with a model name and its switches.
Main(i) ==
  /\ pc[i] = "idle" /\ quota > 0
  /\ \E m \in ModelNames, t \in Inits, c \in pool :
       /\ \A j \in Inv : Running(j) => cont[j] # c
       /\ model_name' = [model_name EXCEPT ![i] = m]
       /\ model_init' = [model_init EXCEPT ![i] = t]
       /\ cont' = [cont EXCEPT ![i] = c]
  /\ \E g, u, mt, rc, rf \in BOOLEAN :
       opts' = [opts EXCEPT ![i] =
                  [entry |-> "main", use_gfs |-> g, upload_to_gcs |-> u,
                   make_template |-> mt, run_checks |-> rc,
                   run_forecast |-> rf]]
  /\ Log(i, "main")
  /\ quota' = quota - 1
  /\ Goto(i, "L626")
  /\ UNCHANGED <<envvars, dirs, files, force, k, subset_grbs, shortcut,
                 logvars, uploaded>>

\* (mutant) the model name is not checked.
MainCheckModel_Skipped(i) ==
  /\ pc[i] = "L626"
  /\ Goto(i, "L632")
  /\ UNCHANGED <<envvars, dirs, files, quota, argvars, flowvars, k,
                 subset_grbs, shortcut, logvars>>

\* Lines 626-630: an unsupported model name is a ValueError.
MainCheckModel(i) ==
  /\ pc[i] = "L626"
  /\ IF model_name[i] \notin SUPPORTED_AI_MODELS
     THEN Raise(i, "ValueError") ELSE Goto(i, "L632")
  /\ UNCHANGED <<envvars, dirs, files, quota, argvars, flowvars, k,
                 subset_grbs, shortcut, logvars>>

\* Lines 632-633: make_model_era5_template.remote(model_name) (lines
\* 542-594) writes the template and uploads it as the template blob.
MainMakeTemplate(i) ==
  /\ pc[i] = "L632"
  /\ IF opts[i].make_template
     THEN /\ \E tm \in GeneratedTemplates(model_name[i]) :
               tmplBucket' = [m \in DOMAIN tmplBucket \cup {model_name[i]} |->
                                IF m = model_name[i] THEN tm ELSE tmplBucket[m]]
          /\ Log(i, "make_model_era5_template")
     ELSE UNCHANGED <<tmplBucket, called>>
  /\ Goto(i, "L634")
  /\ UNCHANGED <<template, force_override, gfsKind, pool, dirs, files, quota,
                 argvars, opts, uploaded, k, subset_grbs, shortcut, logvars>>

\* Lines 634-635: check_assets.remote() (lines 204-257) only reads and logs.
MainRunChecks(i) ==
  /\ pc[i] = "L634"
  /\ IF opts[i].run_checks
     THEN Log(i, "check_assets") ELSE UNCHANGED called
  /\ Goto(i, "L636")
  /\ UNCHANGED <<envvars, dirs, files, quota, argvars, opts, uploaded, k,
                 subset_grbs, shortcut, logvars>>

\* Lines 636-643: generate_forecast.remote(...) with main's arguments.
MainRunForecast(i) ==
  /\ pc[i] = "L636"
  /\ IF opts[i].run_forecast
     THEN /\ Log(i, "generate_forecast")
          /\ force' = [force EXCEPT ![i] = force_override]
          /\ Goto(i, "L429")
     ELSE /\ Goto(i, "done")
          /\ UNCHANGED <<called, force>>
  /\ UNCHANGED <<envvars, dirs, files, quota, model_name, model_init, cont,
                 opts, uploaded, k, subset_grbs, shortcut, logvars>>

main(i) ==
  \/ MainCheckModel(i) \/ MainMakeTemplate(i) \/ MainRunChecks(i)
  \/ MainRunForecast(i)

\* One run of the entry point, or one direct invocation of
\* prepare_gfs_analysis, in a cache with or without templates and products.
InitMain ==
  /\ Idle
  /\ template \in {<<>>,
                    [m \in SupportedModels |->
                       IF m = "graphcast" THEN LaggedTemplateBySet(NumCore)
                       ELSE SingleTemplate(NumCore)],
                    [m \in ModelNames |->
                       IF m = "graphcast" THEN LaggedTemplateBySet(NumCore)
                       ELSE SingleTemplate(NumCore)]}
  /\ tmplBucket = <<>>
  /\ force_override \in BOOLEAN
  /\ gfsKind = "full"
  /\ \E pre \in BOOLEAN :
       IF pre
       THEN /\ dirs = {make_gfs_base_pth(t) : t \in Inits}
            /\ files = [p \in FinalPaths |->
                          EarlierProduct(p.fn.model, p.dir.hour)]
       ELSE dirs = {} /\ files = <<>>
  /\ pool = {"c1"}
  /\ quota = 1

NextMain ==
  \E i \in Inv : Invoke(i) \/ Main(i) \/ main(i) \/ generate_forecast(i)
                 \/ prepare_gfs_analysis(i)

SpecMain == InitMain /\ [][NextMain]_vars

\* ================================================================ claims
\* The lines of prepare_gfs_analysis an invocation can be at.
PreparePcs ==
  {"L48", "L54", "L60", "L74", "L96", "L108", "L168", "L176", "L188",
   "L188-copy", "L192"}

FullPath(i) == pc[i] = "returned" /\ ~shortcut[i]
Bytes(msgs) == Concat([j \in 1..Len(msgs) |-> tostring(msgs[j])])

\* C1: the check for an existing product comes before all other work.  An
\* invocation that finds the product in the cache with force off returns at
\* once: it has downloaded nothing, called the subsetting routine never,
\* written, created or copied no file, and its own step leaves every file as
\* it was.  With force on (or no product) it goes on, and when it returns it
\* has downloaded every source, made every subsetting call and written the
\* product.
C1_ShortCircuitFirst ==
  /\ [](\A i \in Inv :
          shortcut[i] =>
            /\ pc[i] = "returned" /\ raised[i] = "none"
            /\ downloaded[i] = <<>> /\ subsetted[i] = <<>>
            /\ reads[i] = {} /\ writes[i] = {} /\ subset_grbs[i] = <<>>)
  /\ [][\A i \in Inv :
          (pc[i] = "L60" /\ pc'[i] # "L60") =>
            IF Exists(final_pth(i)) /\ ~force[i]
            THEN pc'[i] = "returned" /\ shortcut'[i] /\ files' = files
            ELSE pc'[i] = "L74" /\ ~shortcut'[i]]_vars
  /\ [](\A i \in Inv :
          FullPath(i) =>
            /\ downloaded[i] = source_blob_names(model_name[i], model_init[i])
            /\ Len(subsetted[i]) = Len(SubsetCalls(model_name[i], model_init[i]))
            /\ final_pth(i) \in writes[i]
            /\ Exists(final_pth(i)))

\* C1 witness: one invocation returned at the check while another, forced,
\* ran the full path for the same product.
C1_Witness ==
  \E i, j \in Inv :
    /\ i # j /\ shortcut[i] /\ force[j] /\ FullPath(j)
    /\ final_pth(i) = final_pth(j)

\* ------------------------------------------------------------- C2 .. C5
Written(i) == pc[i] \in {"L168", "L176", "L188", "L188-copy", "L192"} \/ FullPath(i)

\* The message a template message d yields from the analysis of hour s when
\* re-dated to hour target.
Extracted(d, s, target) ==
  [shortName |-> d.shortName, level |-> d.level,
   dataDate |-> DataDate(target), dataTime |-> DataTime(target), payload |-> s]

\* The template messages, in template order, written at the template epoch +
\* lag that are (isTp) or are not precipitation, each extracted from the
\* analysis of hour s and re-dated to hour target.
PartOf(tmpl, lag, isTp, s, target) ==
  LET Wanted(d) ==
        /\ d.dataDate = DataDate(DEFAULT_GFS_TEMPLATE_MODEL_EPOCH + lag)
        /\ d.dataTime = DataTime(DEFAULT_GFS_TEMPLATE_MODEL_EPOCH + lag)
        /\ (d.shortName = "tp") = isTp
      sel == SelectSeq(tmpl, Wanted)
  IN  [j \in 1..Len(sel) |-> Extracted(sel[j], s, target)]

Identity(seq) == [j \in 1..Len(seq) |-> <<seq[j].shortName, seq[j].level>>]

\* C2: for the lagged model the assembled sequence is the core fields from the
\* 0 h source, then the core fields from the -6 h source, then precipitation
\* from the 0 h source, then precipitation from the -6 h source, each part in
\* the order of the template; and the file holds the messages in that order.
C2_SetConcatenationOrder ==
  \A i \in Inv :
    (model_name[i] = "graphcast" /\ Written(i)) =>
      LET tm == template["graphcast"]
          t == model_init[i]
      IN  /\ subset_grbs[i] =
                PartOf(tm, 0, FALSE, t, t) \o PartOf(tm, -6, FALSE, t - 6, t - 6)
                \o PartOf(tm, -6, TRUE, t, t - 6)
                \o PartOf(tm, -18, TRUE, t - 6, t - 18)
          /\ FullPath(i) => Decode(files[final_pth(i)]) = subset_grbs[i]

\* C2 witness: a finished lagged run whose output covers a field-major
\* template and is not in template order.
C2_Witness ==
  \E i \in Inv :
    /\ model_name[i] = "graphcast" /\ FullPath(i)
    /\ template["graphcast"] = LaggedTemplateByField(NumCore)
    /\ Len(subset_grbs[i]) = Len(template["graphcast"])
    /\ Identity(subset_grbs[i]) # Identity(template["graphcast"])

Last(seq) == seq[Len(seq)]

\* C3: a single-source model downloads one blob (init time) and makes one
\* subsetting call, target model_init, no overrides.  The lagged model
\* downloads two blobs (init time and six hours before); its first two calls
\* pair those files with lags 0 and -6 and exclude precipitation, its last two
\* pair the same files with lags -6 and -18 and select precipitation; for each
\* file the two lags differ.
C3_SetPolicy ==
  \A i \in Inv :
    LET t == model_init[i]
        calls == subsetted[i]
        Lagged(c, fn, lag, sn) ==
          /\ c.call.source_fn = fn
          /\ c.call.target = t + lag
          /\ c.call.matchers =
               [dataDate |-> Literal(DataDate(DEFAULT_GFS_TEMPLATE_MODEL_EPOCH + lag)),
                dataTime |-> Literal(DataTime(DEFAULT_GFS_TEMPLATE_MODEL_EPOCH + lag)),
                shortName |-> sn]
    IN  /\ model_name[i] \in SingleSource =>
             /\ Len(downloaded[i]) <= 1 /\ Len(calls) <= 1
             /\ Written(i) =>
                  /\ downloaded[i] = <<make_gfs_ics_blob_name(t)>>
                  /\ Len(calls) = 1
                  /\ calls[1].call.source_fn = Last(downloaded[i][1])
                  /\ calls[1].call.target = t
                  /\ calls[1].call.matchers = NoOverrides
        /\ model_name[i] = "graphcast" =>
             /\ Len(downloaded[i]) <= 2 /\ Len(calls) <= 4
             /\ Written(i) =>
                  /\ downloaded[i] = <<make_gfs_ics_blob_name(t),
                                       make_gfs_ics_blob_name(t - 6)>>
                  /\ Len(calls) = 4
                  /\ Lagged(calls[1], Last(downloaded[i][1]), 0, NotEqual("tp"))
                  /\ Lagged(calls[2], Last(downloaded[i][2]), -6, NotEqual("tp"))
                  /\ Lagged(calls[3], Last(downloaded[i][1]), -6, Literal("tp"))
                  /\ Lagged(calls[4], Last(downloaded[i][2]), -18, Literal("tp"))
                  /\ \A s \in 1..2 : calls[s].call.target # calls[s + 2].call.target

\* C3 witness: a finished lagged run with its two downloads and four calls.
C3_Witness ==
  \E i \in Inv :
    /\ model_name[i] = "graphcast" /\ FullPath(i)
    /\ Len(downloaded[i]) = 2 /\ Len(subsetted[i]) = 4

\* Messages contributed by the calls logged under a set label / for a file.
RECURSIVE CountWhere(_, _, _)
CountWhere(calls, set, fn) ==
  IF calls = <<>> THEN 0
  ELSE (IF (set = 0 \/ Head(calls).call.set = set)
           /\ (fn = <<>> \/ <<Head(calls).call.source_fn>> = fn)
        THEN Len(Head(calls).msgs) ELSE 0)
       + CountWhere(Tail(calls), set, fn)

ScenarioB(i) ==
  /\ model_name[i] = "graphcast" /\ FullPath(i)
  /\ template["graphcast"] \in
       {LaggedTemplateBySet(NumCore), LaggedTemplateByField(NumCore)}

DatedAt(g, t) == g.dataDate = DataDate(t) /\ g.dataTime = DataTime(t)

\* C4 (amended): with NumCore core fields at lags 0 and -6 and precipitation
\* at lags -6 and -18, the run returns 2*NumCore + 2 messages (12 for five):
\* 2*NumCore (10) from Set 1, the core set, and 2 from Set 2, the
\* precipitation set; that is NumCore + 1 (6) from each source file.  Every
\* message carries the validity date and time of the call that produced it:
\* model_init and model_init - 6 h for the core calls, model_init - 6 h and
\* model_init - 18 h for the precipitation calls.
C4_ScenarioB ==
  \A i \in Inv :
    ScenarioB(i) =>
      LET t == model_init[i]
          calls == subsetted[i]
          fns == source_fns("graphcast", t)
      IN  /\ Len(subset_grbs[i]) = 2 * NumCore + 2
          /\ NumCore = 5 => Len(subset_grbs[i]) = 12
          /\ CountWhere(calls, 1, <<>>) = 2 * NumCore
          /\ CountWhere(calls, 2, <<>>) = 2
          /\ \A s \in 1..2 : CountWhere(calls, 0, <<fns[s]>>) = NumCore + 1
          /\ \A j \in 1..NumCore : DatedAt(subset_grbs[i][j], t)
          /\ \A j \in (NumCore + 1)..(2 * NumCore) :
               DatedAt(subset_grbs[i][j], t - 6)
          /\ DatedAt(subset_grbs[i][2 * NumCore + 1], t - 6)
          /\ DatedAt(subset_grbs[i][2 * NumCore + 2], t - 18)
          /\ \A c \in 1..Len(calls) : \A j \in 1..Len(calls[c].msgs) :
               DatedAt(calls[c].msgs[j], calls[c].call.target)

\* C4 as stated: each of the two declared sets contributes NumCore + 1 (six)
\* of the messages.
C4_SixFromEachSet ==
  \A i \in Inv :
    ScenarioB(i) =>
      /\ Len(subset_grbs[i]) = 2 * NumCore + 2
      /\ CountWhere(subsetted[i], 1, <<>>) = NumCore + 1
      /\ CountWhere(subsetted[i], 2, <<>>) = NumCore + 1

\* C4 witness: a finished Scenario B run.
C4_Witness ==
  \E i \in Inv : ScenarioB(i) /\ Len(subsetted[i]) = 4 /\ subset_grbs[i] # <<>>

ShortNames == {"t", "z", "tp", "msl", ""}

\* C5: a Set 1 call never returns a precipitation message and a Set 2 call
\* returns nothing else; every shortName is accepted by exactly one of the two
\* shortName matchers, and no template message is selected by both the Set 1
\* call and the Set 2 call of one source file.
C5_OverridePredicates ==
  \A i \in Inv :
    model_name[i] = "graphcast" =>
      LET calls == subsetted[i]
      IN  /\ \A c \in 1..Len(calls) : \A j \in 1..Len(calls[c].msgs) :
               (calls[c].call.set = 1) = (calls[c].msgs[j].shortName # "tp")
          /\ \A c, e \in 1..Len(calls) :
               (calls[c].call.set = 1 /\ calls[e].call.set = 2) =>
                 /\ \A sn \in ShortNames :
                      ApplyMatcher(calls[c].call.matchers.shortName, sn)
                        # ApplyMatcher(calls[e].call.matchers.shortName, sn)
                 /\ calls[c].call.source_fn = calls[e].call.source_fn =>
                      \A j \in 1..Len(template["graphcast"]) :
                        ~(Selects(calls[c].call.matchers, template["graphcast"][j])
                          /\ Selects(calls[e].call.matchers, template["graphcast"][j]))

\* C5 witness: a lagged run whose Set 1 calls and Set 2 calls each returned
\* messages from a template that holds precipitation at the core lag -6 h.
C5_Witness ==
  \E i \in Inv :
    /\ model_name[i] = "graphcast" /\ Len(subsetted[i]) = 4
    /\ \A c \in 1..4 : subsetted[i][c].msgs # <<>>
    /\ \E j \in 1..Len(template["graphcast"]) :
         template["graphcast"][j] = TpAt(-6)

\* ------------------------------------------------------------- C6 .. C10
\* How many of an invocation's subsetting calls select template message d.
Coverage(m, t, d) ==
  Cardinality({c \in 1..Len(SubsetCalls(m, t)) :
                 Selects(SubsetCalls(m, t)[c].matchers, d)})
Miscovered(i) ==
  /\ model_name[i] \in DOMAIN template
  /\ model_name[i] \in SupportedModels
  /\ \E j \in 1..Len(template[model_name[i]]) :
       Coverage(model_name[i], model_init[i], template[model_name[i]][j]) # 1

\* C6 as stated: when some template message is covered by no set or by more
\* than one, the invocation fails with a coverage error before any matching:
\* it makes no subsetting call, assembles no message and does not return
\* normally.
C6_CoverageCheckedFirst ==
  \A i \in Inv :
    (Miscovered(i) /\ pc[i] \notin {"idle", "L429", "L449", "L451", "L458"}) =>
      /\ subsetted[i] = <<>> /\ subset_grbs[i] = <<>>
      /\ ~FullPath(i)

\* Byte offset of message j in the serialization of msgs.
Offset(msgs, j) == SumLen([n \in 1..(j - 1) |-> tostring(msgs[n])])

Invoked(i) == pc[i] # "idle"
\* prepare_gfs_analysis was invoked, and it has not returned to a caller that
\* went on.
InPrepare(i) ==
  /\ \E j \in 1..Len(called[i]) : called[i][j] = "prepare_gfs_analysis"
  /\ \A j \in 1..Len(called[i]) : called[i][j] # "prepare_gfs_analysis returned"

\* C8 as stated: two invocations with different (model_name, model_init)
\* never touch a common file: neither reads or writes a file the other
\* writes.
C8_NoSharedFiles ==
  \A i, j \in Inv :
    (i # j /\ Invoked(i) /\ Invoked(j)
     /\ <<model_name[i], model_init[i]>> # <<model_name[j], model_init[j]>>) =>
      (reads[i] \cup writes[i]) \cap writes[j] = {}

\* What the next step of a running invocation needs: a line to execute, loop
\* indices in range, and the files it reads or appends to.
CanStep(i) ==
  /\ pc[i] \in PreparePcs
  /\ pc[i] \in {"L54", "L60", "L74", "L96", "L108"} =>
       model_name[i] \in DOMAIN template
  /\ pc[i] = "L96" =>
       k[i] \in 1..Len(source_blob_names(model_name[i], model_init[i]))
  /\ pc[i] = "L108" =>
       /\ k[i] \in 1..Len(SubsetCalls(model_name[i], model_init[i]))
       /\ Exists(local(i, SubsetCalls(model_name[i], model_init[i])[k[i]].source_fn))
  /\ pc[i] \in {"L176", "L188", "L188-copy"} => Exists(local_proc_pth(i))
  /\ pc[i] = "L188-copy" => Exists(final_pth(i))

\* C9: nothing serializes invocations on one output path.  An invocation that
\* is running always has a next step, whatever the other does; the final
\* existence check never fails; the only errors are its own (unknown model or
\* missing template, failed download); and when two invocations of the same
\* product have both returned through the full path, the cache file is the
\* complete output (of either: both assembled the same messages).
C9_LastWriterWins ==
  /\ \A i \in Inv :
       /\ Running(i) => CanStep(i)
       /\ pc[i] = "L192" => Exists(final_pth(i))
       /\ raised[i] \in {"none", "ValueError", "RuntimeError"}
       /\ raised[i] = "RuntimeError" =>
            /\ pc[i] = "raised" /\ subsetted[i] = <<>>
            /\ Len(downloaded[i]) >= 1
       /\ raised[i] = "ValueError" =>
            model_name[i] \notin SupportedModels /\ downloaded[i] = <<>>
  /\ \A i, j \in Inv :
       (i # j /\ FullPath(i) /\ FullPath(j) /\ final_pth(i) = final_pth(j)) =>
         /\ files[final_pth(i)] = Bytes(subset_grbs[i])
         /\ files[final_pth(i)] = Bytes(subset_grbs[j])
         /\ subset_grbs[i] # <<>>

\* C9 witness: two unforced invocations of one product, in different
\* containers, both passed the existence check and both copied.
C9_Witness ==
  \E i, j \in Inv :
    /\ i # j /\ FullPath(i) /\ FullPath(j) /\ final_pth(i) = final_pth(j)
    /\ ~force[i] /\ ~force[j] /\ cont[i] # cont[j]

\* C10: an invocation that finds no template raises ValueError on its first
\* step, creating no directory and touching no file; past that step the
\* template exists.  No step of prepare_gfs_analysis changes a template file
\* or a template blob.  A template blob is generated only by
\* _maybe_download_assets, and only when the template is absent both locally
\* and in the bucket.
C10_MissingTemplate ==
  /\ [](\A i \in Inv :
          /\ (pc[i] \in PreparePcs \ {"L48"} \/ pc[i] = "returned") =>
               model_name[i] \in DOMAIN template
          /\ (InPrepare(i) /\ pc[i] # "L48"
              /\ model_name[i] \notin DOMAIN template) =>
               /\ pc[i] = "raised" /\ raised[i] = "ValueError"
               /\ downloaded[i] = <<>> /\ subsetted[i] = <<>>
               /\ reads[i] = {} /\ writes[i] = {})
  /\ [][\A i \in Inv :
          (pc[i] = "L48" /\ pc'[i] # "L48"
           /\ model_name[i] \notin DOMAIN template) =>
            /\ pc'[i] = "raised" /\ raised'[i] = "ValueError"
            /\ dirs' = dirs /\ files' = files]_vars
  /\ [][(\E i \in Inv : pc[i] \in PreparePcs /\ pc'[i] # pc[i]) =>
          (template' = template /\ tmplBucket' = tmplBucket)]_vars
  /\ [][tmplBucket' # tmplBucket =>
          \E i \in Inv :
            /\ pc[i] = "L451" /\ pc'[i] = "L458"
            /\ model_name[i] \notin DOMAIN template
            /\ model_name[i] \notin DOMAIN tmplBucket]_vars

\* C10 witness: a supported model's invocation ended in ValueError because
\* its template was absent, in a cache that has no directory.
C10_Witness ==
  \E i \in Inv :
    /\ pc[i] = "raised" /\ raised[i] = "ValueError"
    /\ model_name[i] \in SupportedModels
    /\ model_name[i] \notin DOMAIN template
    /\ dirs = {}
\* The exceptions gfs.process_gdas_grib ends with.
SubsetErrors == {"NoMatchError", "AmbiguousMatchError"}
\* A sequence that starts as another does.
IsPrefix(s, t) == Len(s) <= Len(t) /\ s = SubSeq(t, 1, Len(s))
Calls(i) == [j \in 1..Len(subsetted[i]) |-> subsetted[i][j].call]
\* The invocation ended in the failure of a download or of a subsetting call.
StepFailed(i) ==
  /\ pc[i] = "raised" /\ InPrepare(i)
  /\ \/ raised[i] = "RuntimeError" /\ downloaded[i] # <<>>
     \/ raised[i] \in SubsetErrors

\* C11: a download that leaves no file ends the invocation in RuntimeError,
\* a failing subsetting call ends it in that call's error.  Each blob is asked
\* for once and each call made once, in the order of the policy (no retry); a
\* failed one is the last of its log and nothing runs after it: the ended
\* invocation takes no further step.  The local output file and the cached
\* file are neither created nor changed by any step of the download and
\* subsetting loops nor by the failing invocation, and the output is opened
\* only when every download and every subsetting call has succeeded.
C11_FailurePropagation ==
  /\ [](\A i \in Inv :
          /\ IsPrefix(downloaded[i],
                      source_blob_names(model_name[i], model_init[i]))
          /\ IsPrefix(Calls(i), SubsetCalls(model_name[i], model_init[i]))
          /\ \A j \in 1..Len(subsetted[i]) :
               subsetted[i][j].err # "none" =>
                 /\ j = Len(subsetted[i])
                 /\ pc[i] = "raised" /\ raised[i] = subsetted[i][j].err
          /\ StepFailed(i) =>
               /\ local_proc_pth(i) \notin writes[i]
               /\ final_pth(i) \notin writes[i]
               /\ raised[i] = "RuntimeError" => subsetted[i] = <<>>
          /\ (pc[i] \in {"L168", "L176", "L188", "L188-copy", "L192"}
              \/ local_proc_pth(i) \in writes[i]) =>
               /\ downloaded[i] = source_blob_names(model_name[i], model_init[i])
               /\ Calls(i) = SubsetCalls(model_name[i], model_init[i])
               /\ \A j \in 1..Len(subsetted[i]) : subsetted[i][j].err = "none")
  /\ [][\A i \in Inv :
          /\ (pc[i] \in {"L96", "L108"} /\ pc'[i] = "raised") =>
               /\ raised'[i] \in SubsetErrors \cup {"RuntimeError"}
               /\ pc[i] = "L96" =>
                    /\ raised'[i] = "RuntimeError"
                    /\ ~Exists(local(i, source_fns(model_name[i],
                                                   model_init[i])[k[i]]))'
          /\ (pc[i] \in {"L96", "L108"} /\ <<pc[i], k[i]>> # <<pc'[i], k'[i]>>) =>
               \A p \in {local_proc_pth(i), final_pth(i)} :
                 /\ (p \in DOMAIN files) = (p \in DOMAIN files')
                 /\ p \in DOMAIN files => files'[p] = files[p]
          /\ pc[i] = "raised" =>
               /\ pc'[i] = "raised" /\ raised'[i] = raised[i]
               /\ downloaded'[i] = downloaded[i]
               /\ subsetted'[i] = subsetted[i]
               /\ writes'[i] = writes[i]]_vars

\* C11 witness: the lagged model's third subsetting call failed, after two
\* downloads and two successful calls, with a product of an earlier run in the
\* cache.
C11_Witness ==
  \E i \in Inv :
    /\ StepFailed(i) /\ raised[i] \in SubsetErrors
    /\ Len(downloaded[i]) = 2 /\ Len(subsetted[i]) = 3
    /\ Exists(final_pth(i))
    /\ files[final_pth(i)] = EarlierProduct(model_name[i], model_init[i])
C12_MainRefused ==
  \E i \in Inv :
    /\ opts[i].entry = "main" /\ model_name[i] \notin SUPPORTED_AI_MODELS
    /\ opts[i].make_template /\ opts[i].run_checks /\ opts[i].run_forecast
    /\ pc[i] = "raised" /\ raised[i] = "ValueError"
\* C13: prepare_gfs_analysis returns only from the existence check (line 66)
\* or from the final check (line 193), and whenever it has returned the file
\* gdas.proc-<model_name>.grib exists in the cache directory of model_init;
\* the final check returns when the file exists and raises RuntimeError when
\* it does not.
C13_ProductExists ==
  /\ [](\A i \in Inv :
          pc[i] = "returned" =>
            /\ Exists(Path(make_gfs_base_pth(model_init[i]),
                           proc_gdas_fn(model_name[i])))
            /\ make_gfs_base_pth(model_init[i]) \in dirs
            /\ raised[i] = "none"
            /\ shortcut[i] <=> final_pth(i) \notin writes[i])
  /\ [][\A i \in Inv :
          /\ (pc[i] # "returned" /\ pc'[i] = "returned") =>
               /\ pc[i] \in {"L60", "L192"}
               /\ Exists(final_pth(i)) /\ Exists(final_pth(i))'
               /\ pc[i] = "L60" <=> shortcut'[i]
          /\ (pc[i] = "L192" /\ pc'[i] # "L192") =>
               IF Exists(final_pth(i)) THEN pc'[i] = "returned"
               ELSE pc'[i] = "raised" /\ raised'[i] = "RuntimeError"]_vars

\* C13 witness: one invocation returned through the full path and another
\* through the short-circuit, the product being in the cache.
C13_Witness ==
  \E i, j \in Inv :
    /\ FullPath(i) /\ pc[j] = "returned" /\ shortcut[j]
    /\ Exists(final_pth(i)) /\ Exists(final_pth(j))
\* Where a call first appears in a log (0: nowhere), and whether one call was
\* logged before another.
Index(log, x) ==
  IF \E j \in 1..Len(log) : log[j] = x
  THEN CHOOSE j \in 1..Len(log) :
         log[j] = x /\ \A l \in 1..(j - 1) : log[l] # x
  ELSE 0
Before(log, x, y) == Index(log, x) > 0 /\ Index(log, x) < Index(log, y)
Did(i, x) == Index(called[i], x) > 0

\* C14: in generate_forecast with use_gfs, run_model starts only when
\* _maybe_download_assets has returned, then prepare_gfs_analysis has been
\* invoked and has returned, then the model has been initialised for GFS.
\* _init_model_for_gfs raises RuntimeError, changing no file, when the
\* processed file is not in the cache, and run_model is then never started.
\* The output is looked for only after the run has returned, the upload comes
\* after that and only with upload_to_gcs, and no blob is stored otherwise.
C14_ForecastOrder ==
  /\ [](\A i \in Inv :
          /\ (InForecast(i) /\ opts[i].use_gfs /\ Did(i, "run_model")) =>
               /\ Before(called[i], "_maybe_download_assets returned",
                         "prepare_gfs_analysis")
               /\ Before(called[i], "prepare_gfs_analysis",
                         "prepare_gfs_analysis returned")
               /\ Before(called[i], "prepare_gfs_analysis returned",
                         "_init_model_for_gfs")
               /\ Before(called[i], "_init_model_for_gfs", "run_model")
               /\ raised[i] \in {"none", "RuntimeError", "FileNotFoundError"}
          /\ (InForecast(i) /\ ~opts[i].use_gfs) =>
               ~Did(i, "prepare_gfs_analysis")
          /\ (opts[i].use_gfs /\ Did(i, "run_model")) =>
               /\ Before(called[i], "_init_model_for_gfs", "run_model")
               /\ Exists(gdas_proc_fn(i))
          /\ (pc[i] = "raised" /\ called[i] # <<>>
              /\ Last(called[i]) = "_init_model_for_gfs") =>
               /\ raised[i] = "RuntimeError"
               /\ ~Did(i, "run_model")
          /\ Did(i, "out_pth.exists") =>
               Before(called[i], "run_model returned", "out_pth.exists")
          /\ Did(i, "upload_blob") =>
               /\ opts[i].upload_to_gcs
               /\ Before(called[i], "out_pth.exists", "upload_blob")
          /\ (pc[i] = "done" /\ opts[i].entry = "generate_forecast") =>
               Did(i, "out_pth.exists"))
  /\ [][\A i \in Inv :
          /\ (pc[i] = "L298" /\ pc'[i] # "L298" /\ opts[i].use_gfs) =>
               IF Exists(final_pth(i))
               THEN pc'[i] = "L388" /\ files'[gdas_proc_fn(i)] = files[final_pth(i)]
               ELSE /\ pc'[i] = "raised" /\ raised'[i] = "RuntimeError"
                    /\ files' = files
          /\ pc[i] = "raised" => pc'[i] = "raised" /\ called'[i] = called[i]
          /\ uploaded' # uploaded =>
               \E j \in Inv : /\ pc[j] = "L502" /\ opts[j].upload_to_gcs
                              /\ Exists(out_pth(j))]_vars

\* C14 witness: a forecast from GFS initial conditions that were prepared
\* through the full path went through to the upload of its output.
C14_Witness ==
  \E i \in Inv :
    /\ opts[i].entry = "generate_forecast" /\ opts[i].use_gfs
    /\ pc[i] = "done" /\ ~shortcut[i] /\ final_pth(i) \in writes[i]
    /\ out_pth(i).fn \in uploaded

\* A model initialised for GFS outside generate_forecast found no processed
\* file and was not run.
C14_InitRefused ==
  \E i \in Inv :
    /\ opts[i].entry = "AIModel" /\ opts[i].use_gfs
    /\ pc[i] = "raised" /\ raised[i] = "RuntimeError"
    /\ ~Exists(final_pth(i)) /\ ~Did(i, "run_model")
====
